---------------------------- MODULE Spec2Model ----------------------------
(***************************************************************************)
(* Model of zicongmo/stable-marriage:                                      *)
(*   src/stable_matching.py      the deferred-acceptance engine            *)
(*   src/stable_marriage_csv.py  validation, heuristics, orchestration     *)
(*                                                                         *)
(* Python lists are sequences (index i of Python is index i+1 here), a     *)
(* Python dict is a sequence of <<key, value>> pairs in insertion order,   *)
(* Python's None is the string NoneVal.                                    *)
(***************************************************************************)
EXTENDS Integers, Sequences, FiniteSets, TLC

VARIABLES
    pc,                            \* position of main() / of the engine run
    rawMentors, rawCandidates,     \* rows read from the two CSV files (name first)
    rawMentorsYears, rawCandidatesYears,  \* year column of the two CSV files
    mentors, candidates,           \* main's pools, mutated in place by the stages
    mentors_years, candidates_years,
    successful_pairings,
    one_sided_candidate_pairings,
    one_sided_mentor_pairings,
    mentor_dict, candidate_dict,   \* the dictionaries handed to the engine
    stable_matches,
    stable_match_success,
    all_pairings,
    engine_runs,                   \* number of stable_marriage calls made by main
    error,                         \* the exception that ended main, or NoneVal
    eng,                           \* state of one stable_marriage run
    args,                          \* arguments of one call of a helper function
    ret                            \* what that call returned

vars == <<pc, rawMentors, rawCandidates, rawMentorsYears, rawCandidatesYears,
          mentors, candidates, mentors_years, candidates_years,
          successful_pairings, one_sided_candidate_pairings,
          one_sided_mentor_pairings, mentor_dict, candidate_dict,
          stable_matches, stable_match_success, all_pairings, engine_runs,
          error, eng, args, ret>>

\* the state of a helper called on its own
callVars == <<args, ret>>

pipelineVars == <<rawMentors, rawCandidates, rawMentorsYears, rawCandidatesYears,
          mentors, candidates, mentors_years, candidates_years,
          successful_pairings, one_sided_candidate_pairings,
          one_sided_mentor_pairings, mentor_dict, candidate_dict,
          stable_matches, stable_match_success, all_pairings, engine_runs,
          error>>

-----------------------------------------------------------------------------
(* Bounds of the checked instances *)

\* SpecEngine: number of men plus number of women of an engine instance
MaxPeople == 5
\* Spec: total number of preference entries over all rows of both CSV files
MaxEntries == 3
\* Spec: the same for the inputs of two mentors and three candidates
MaxWideEntries == 2
\* preference entries in all of an input in which a name is shared by the files
MaxSharedEntries == 5

-----------------------------------------------------------------------------
(* Universe of names *)

NoneVal == "None"

MentorNames == {"m1", "m2"}
CandidateNames == {"c1", "c2"}
WideCandidateNames == {"c1", "c2", "c3"}
SharedMentorNames == {"a", "m2"}
SharedCandidateNames == {"a", "c1"}
SharedNames == SharedMentorNames \cup SharedCandidateNames
\* the years of an input with a shared name: a mentor may be as old as a candidate
SharedCandidateYears == {2}
MentorYears == {1, 2}
CandidateYears == {2, 3}

MenNames == <<"a", "b", "c", "d", "e", "f">>
WomenNames == <<"u", "v", "w", "x", "y", "z">>

\* Python's ordering of the strings used as names (sorted() in fill_list)
NameOrder == <<"a", "b", "c", "c1", "c2", "c3", "d", "e", "f", "m1", "m2",
               "u", "v", "w", "x", "y", "z">>

-----------------------------------------------------------------------------
(* Sequence and dictionary helpers *)

Range(s) == {s[i] : i \in 1..Len(s)}

IsIn(x, s) == \E i \in 1..Len(s) : s[i] = x

\* list.index: the least position holding x (0 when absent)
FirstPos(x, s) ==
    IF IsIn(x, s) THEN CHOOSE i \in 1..Len(s) : s[i] = x /\ \A j \in 1..(i-1) : s[j] # x
    ELSE 0

\* the greatest position holding x (0 when absent)
LastPos(x, s) ==
    IF IsIn(x, s) THEN CHOOSE i \in 1..Len(s) : s[i] = x /\ \A j \in (i+1)..Len(s) : s[j] # x
    ELSE 0

RemoveAt(s, i) == SubSeq(s, 1, i-1) \o SubSeq(s, i+1, Len(s))

\* list.remove(x): drops the first element equal to x
ListRemove(s, x) == RemoveAt(s, FirstPos(x, s))

\* all orderings (permutations) of the finite set S, as sequences
RECURSIVE Perms(_)
Perms(S) ==
    IF S = {} THEN {<<>>}
    ELSE UNION {{<<x>> \o p : p \in Perms(S \ {x})} : x \in S}

DictKeys(d) == [i \in 1..Len(d) |-> d[i][1]]

DictHas(d, k) == \E i \in 1..Len(d) : d[i][1] = k

DictGet(d, k) == d[CHOOSE i \in 1..Len(d) : d[i][1] = k][2]

\* d[k] = v: overwrites in place, or appends a new key
DictSet(d, k, v) ==
    IF DictHas(d, k)
    THEN [i \in 1..Len(d) |-> IF d[i][1] = k THEN <<k, v>> ELSE d[i]]
    ELSE Append(d, <<k, v>>)

\* sorted(list(names)) for a set of names
SortedNames(S) == SelectSeq(NameOrder, LAMBDA n : n \in S)

-----------------------------------------------------------------------------
(* src/stable_matching.py *)

\* Woman.get_ranking: preference_dict maps a man to the last index at which the
\* list names him (d[man] = i overwrites), None ranks at num_suitors
get_ranking(preference_list, man) ==
    IF man = NoneVal THEN Len(preference_list)
    ELSE LastPos(man, preference_list) - 1

\* preference_dict[man] raises KeyError when the list does not name the man
RankingKnown(preference_list, man) == man = NoneVal \/ IsIn(man, preference_list)

\* a woman who takes every newcomer, whatever her ranking of him
Rejects_Nobody(preference_list, bachelor_name, suitor) == FALSE

\* the loop condition of line 78: the woman keeps her suitor
Rejects(preference_list, bachelor_name, suitor) ==
    get_ranking(preference_list, bachelor_name) > get_ranking(preference_list, suitor)

\* A Man object is named by <<name, kind>>: kind "queue" for the objects built
\* for the initial bachelors list (line 64), kind "dict" for those of men_dict
\* (line 56).  next_index holds the pointer of every object.
ManObjects(male) ==
    {<<DictKeys(male)[i], k>> : i \in 1..Len(male), k \in {"queue", "dict"}}

\* state of stable_marriage(male, female) at the head of its while loop
EngineStart(male, female) ==
    [male       |-> male,
     female     |-> female,
     bachelors  |-> [i \in 1..Len(male) |-> <<male[i][1], "queue">>],
     next_index |-> [o \in ManObjects(male) |-> 0],
     suitor     |-> [w \in Range(DictKeys(female)) |-> NoneVal],
     proposals  |-> <<>>,
     status     |-> "running",
     result     |-> <<>>]

\* lines 89-93: the marriages dictionary inverted, in the order of women_dict
Marriages(e) == [i \in 1..Len(e.female) |-> <<e.suitor[e.female[i][1]], e.female[i][1]>>]

\* lines 68 and 89-93: the loop ends when no bachelor is left
EngineReturn(e) ==
    IF e.status = "running" /\ Len(e.bachelors) = 0
    THEN [e EXCEPT !.status = "done", !.result = Marriages(e)]
    ELSE e

\* Man.next_candidate, lines 30-31: the name at the pointer
CandidateAt_FromTheEnd(preference_list, next_index) ==
    preference_list[Len(preference_list) - next_index]

CandidateAt(preference_list, next_index) == preference_list[next_index + 1]

\* an engine that drops a bachelor who has nobody left to propose to and goes on
RECURSIVE Propose_DropsExhausted(_, _)
Propose_DropsExhausted(e, b) ==
    LET prefs == DictGet(e.male, b[1])
        idx   == e.next_index[b]
    IN  IF idx = Len(prefs)
        THEN e
        ELSE LET woman_name == CandidateAt(prefs, idx)
                 e1 == [e EXCEPT !.next_index[b] = idx + 1,
                                 !.proposals = Append(@, <<b[1], woman_name, idx>>)]
                 wprefs == DictGet(e.female, woman_name)
                 cur    == e.suitor[woman_name]
             IN  IF Rejects(wprefs, b[1], cur)
                 THEN Propose_DropsExhausted(e1, b)
                 ELSE [e1 EXCEPT
                         !.bachelors = IF cur # NoneVal
                                       THEN Append(@, <<cur, "dict">>)
                                       ELSE @,
                         !.suitor[woman_name] = b[1]]

\* lines 72-87 for the bachelor object b taken off the list: he proposes down
\* his list from his pointer until a woman does not reject him
RECURSIVE Propose(_, _)
Propose(e, b) ==
    LET prefs == DictGet(e.male, b[1])
        idx   == e.next_index[b]
    IN  IF idx = Len(prefs)
        THEN [e EXCEPT !.status = "infeasible", !.result = <<>>]
        ELSE LET woman_name == CandidateAt(prefs, idx)
                 e1 == [e EXCEPT !.next_index[b] = idx + 1,
                                 !.proposals = Append(@, <<b[1], woman_name, idx>>)]
             IN  IF ~DictHas(e.female, woman_name)
                 THEN [e1 EXCEPT !.status = "KeyError"]
                 ELSE LET wprefs == DictGet(e.female, woman_name)
                          cur    == e.suitor[woman_name]
                      IN  IF ~RankingKnown(wprefs, b[1])
                          THEN [e1 EXCEPT !.status = "KeyError"]
                          ELSE IF Rejects(wprefs, b[1], cur)
                          THEN Propose(e1, b)
                          ELSE [e1 EXCEPT
                                  !.bachelors = IF cur # NoneVal
                                                THEN Append(@, <<cur, "dict">>)
                                                ELSE @,
                                  !.suitor[woman_name] = b[1]]

\* an iteration that leaves the bachelor it serves at the head of the list
EngineIter_KeepsBachelor(e) ==
    EngineReturn(Propose(e, Head(e.bachelors)))

\* one iteration of the while loop of line 68 (lines 69-87), followed by the
\* loop test and, when it fails, the return of lines 89-93
EngineIter(e) ==
    LET b  == Head(e.bachelors)
        e0 == [e EXCEPT !.bachelors = Tail(@)]
    IN  EngineReturn(Propose(e0, b))

\* stable_marriage(male, female) run to its end
RECURSIVE EngineRun(_)
EngineRun(e) == IF e.status = "running" THEN EngineRun(EngineIter(e)) ELSE e

stable_marriage(male, female) == EngineRun(EngineReturn(EngineStart(male, female)))

-----------------------------------------------------------------------------
(* src/stable_marriage_csv.py: data conversion and validation *)

RowNames(rows) == [i \in 1..Len(rows) |-> rows[i][1]]

NameSet(rows) == Range(RowNames(rows))

RECURSIVE list_to_dictionary_from(_, _, _)
list_to_dictionary_from(lst, i, d) ==
    IF i > Len(lst) THEN d
    ELSE list_to_dictionary_from(lst, i + 1, DictSet(d, lst[i][1], Tail(lst[i])))

list_to_dictionary(lst) == list_to_dictionary_from(lst, 1, <<>>)

\* lines 177-183 and 187-193: the names met a second (third, ...) time, in row order
bad_people(rows) ==
    LET dup == {i \in 1..Len(rows) : \E j \in 1..(i-1) : rows[j][1] = rows[i][1]}
        names == RowNames(rows)
    IN  [k \in 1..Cardinality(dup) |->
            names[CHOOSE i \in dup : Cardinality({j \in dup : j < i}) = k - 1]]

\* lines 201-211: the loop over a copy of a mentor's preferences; each failing
\* entry is removed from the row itself with list.remove
RECURSIVE PruneMentorRow(_, _, _, _, _, _)
PruneMentorRow(preference_list, todo, candidate_names, check_year, year, cyears) ==
    IF todo = <<>> THEN preference_list
    ELSE LET cand == Head(todo)
         IN  IF cand \notin candidate_names
             THEN PruneMentorRow(ListRemove(preference_list, cand), Tail(todo),
                                 candidate_names, check_year, year, cyears)
             ELSE IF check_year /\ cyears[cand] <= year
             THEN PruneMentorRow(ListRemove(preference_list, cand), Tail(todo),
                                 candidate_names, check_year, year, cyears)
             ELSE PruneMentorRow(preference_list, Tail(todo),
                                 candidate_names, check_year, year, cyears)

\* lines 218-226: the loop over a copy of a candidate's preferences; the year
\* branch (lines 223-226) only prints when verbose and removes nothing
RECURSIVE PruneCandidateRow(_, _, _, _, _, _)
PruneCandidateRow(preference_list, todo, mentor_names, check_year, year, myears) ==
    IF todo = <<>> THEN preference_list
    ELSE LET mentor == Head(todo)
         IN  IF mentor \notin mentor_names
             THEN PruneCandidateRow(ListRemove(preference_list, mentor), Tail(todo),
                                    mentor_names, check_year, year, myears)
             ELSE IF check_year /\ myears[mentor] >= year
             THEN PruneCandidateRow(preference_list, Tail(todo),
                                    mentor_names, check_year, year, myears)
             ELSE PruneCandidateRow(preference_list, Tail(todo),
                                    mentor_names, check_year, year, myears)

\* validate_data: the exception raised (or NoneVal) and the two lists as the
\* call leaves them; myears and cyears are read only when check_year holds
validate_data(ms, cs, myears, cyears, check_year) ==
    LET candidate_names == NameSet(cs)
        mentor_names == NameSet(ms)
    IN  IF Len(cs) # Cardinality(candidate_names)
        THEN [err |-> "ValueError", group |-> "candidates", bad |-> bad_people(cs),
              mentors |-> ms, candidates |-> cs]
        ELSE IF Len(ms) # Cardinality(mentor_names)
        THEN [err |-> "ValueError", group |-> "mentors", bad |-> bad_people(ms),
              mentors |-> ms, candidates |-> cs]
        ELSE [err |-> NoneVal, group |-> NoneVal, bad |-> <<>>,
              mentors |-> [i \in 1..Len(ms) |->
                  PruneMentorRow(ms[i], Tail(ms[i]), candidate_names, check_year,
                                 IF check_year THEN myears[ms[i][1]] ELSE 0, cyears)],
              candidates |-> [i \in 1..Len(cs) |->
                  PruneCandidateRow(cs[i], Tail(cs[i]), mentor_names, check_year,
                                    IF check_year THEN cyears[cs[i][1]] ELSE 0, myears)]]

\* lines 136-138 and 139-141: a for loop over a list that removes from the list
\* it walks; the loop index moves on after a removal
RECURSIVE RemoveRowsNamed(_, _, _)
RemoveRowsNamed(rows, i, name) ==
    IF i > Len(rows) THEN rows
    ELSE IF rows[i][1] = name
         THEN RemoveRowsNamed(ListRemove(rows, rows[i]), i + 1, name)
         ELSE RemoveRowsNamed(rows, i + 1, name)

\* lines 135-141
RECURSIVE RemovePairedRows(_, _, _, _)
RemovePairedRows(pairings, k, ms, cs) ==
    IF k > Len(pairings) THEN [mentors |-> ms, candidates |-> cs]
    ELSE RemovePairedRows(pairings, k + 1,
                          RemoveRowsNamed(ms, 1, pairings[k][1]),
                          RemoveRowsNamed(cs, 1, pairings[k][2]))

remove_pairings(pairings, ms, cs) ==
    LET left == RemovePairedRows(pairings, 1, ms, cs)
    IN  validate_data(left.mentors, left.candidates, NoneVal, NoneVal, FALSE)

-----------------------------------------------------------------------------
(* src/stable_marriage_csv.py: list completion *)

\* lines 295-301: the stated names without repetition behind the member's name,
\* and the names of name_set not stated
RECURSIVE FillLoop(_, _, _)
FillLoop(todo, l, names) ==
    IF todo = <<>> THEN [l |-> l, names |-> names]
    ELSE FillLoop(Tail(todo),
                  IF IsIn(Head(todo), l) THEN l ELSE Append(l, Head(todo)),
                  names \ {Head(todo)})

fill_list(preference_list, name_set) ==
    LET r == FillLoop(Tail(preference_list), <<preference_list[1]>>, name_set)
    IN  r.l \o SortedNames(r.names)

\* line 322
ValidMentorsFor(c, ms, myears, cyears) ==
    {ms[i][1] : i \in {j \in 1..Len(ms) : myears[ms[j][1]] < cyears[c[1]]}}

\* line 323
ValidCandidatesFor(m, cs, myears, cyears) ==
    {cs[i][1] : i \in {j \in 1..Len(cs) : cyears[cs[j][1]] > myears[m[1]]}}

\* lines 322-323: the year of every row's first element is looked up for every
\* pair of rows; a row whose first element is no key of its year dictionary
\* (validate_data has removed the name it had) raises KeyError
UnknownYear(ms, cs, myears, cyears) ==
    /\ ms # <<>> /\ cs # <<>>
    /\ \/ \E i \in 1..Len(ms) : ms[i][1] \notin DOMAIN myears
       \/ \E i \in 1..Len(cs) : cs[i][1] \notin DOMAIN cyears

fill_with_valid(ms, cs, myears, cyears) ==
    IF UnknownYear(ms, cs, myears, cyears)
    THEN [err |-> "KeyError", candidates_filled |-> <<>>, mentors_filled |-> <<>>]
    ELSE [err |-> NoneVal,
          candidates_filled |-> [i \in 1..Len(cs) |->
              fill_list(cs[i], ValidMentorsFor(cs[i], ms, myears, cyears))],
          mentors_filled |-> [i \in 1..Len(ms) |->
              fill_list(ms[i], ValidCandidatesFor(ms[i], cs, myears, cyears))]]

-----------------------------------------------------------------------------
(* src/stable_marriage_csv.py: matching helpers *)

\* match_top_choices over the two dictionaries: the pairs found, or the
\* exception of line 352 (the candidate named first has an empty list)
RECURSIVE TopChoicesLoop(_, _, _, _)
TopChoicesLoop(md, cd, i, successful) ==
    IF i > Len(md) THEN [err |-> NoneVal, pairings |-> successful]
    ELSE LET mentor == md[i][1]
             preference_list == md[i][2]
         IN  IF Len(preference_list) = 0
             THEN TopChoicesLoop(md, cd, i + 1, successful)
             ELSE IF ~DictHas(cd, preference_list[1])
             THEN [err |-> "KeyError", pairings |-> successful]
             ELSE IF Len(DictGet(cd, preference_list[1])) = 0
             THEN [err |-> "IndexError", pairings |-> successful]
             ELSE IF DictGet(cd, preference_list[1])[1] = mentor
             THEN TopChoicesLoop(md, cd, i + 1,
                                 Append(successful, <<mentor, preference_list[1]>>))
             ELSE TopChoicesLoop(md, cd, i + 1, successful)

match_top_choices(md, cd) == TopChoicesLoop(md, cd, 1, <<>>)

\* lines 379-382
no_preference_members(group1) ==
    RowNames(SelectSeq(group1, LAMBDA row : Len(Tail(row)) = 0))

\* lines 391-394: (group2 name, preference i) of the rows long enough
preference_i_pairings(group2, i) ==
    LET long == SelectSeq(group2, LAMBDA row : Len(row) > i)
    IN  [k \in 1..Len(long) |-> <<long[k][1], long[k][i + 1]>>]

\* lines 395-399
RECURSIVE PairRank(_, _, _)
PairRank(todo, members, pairings) ==
    IF todo = <<>> THEN [members |-> members, pairings |-> pairings]
    ELSE LET pairing == Head(todo)
         IN  IF IsIn(pairing[2], members)
             THEN PairRank(Tail(todo), ListRemove(members, pairing[2]),
                           Append(pairings, <<pairing[2], pairing[1]>>))
             ELSE PairRank(Tail(todo), members, pairings)

\* a scan that starts at the deepest position and ends at position 1
RECURSIVE ScanRanks_FromDeepest(_, _, _, _, _)
ScanRanks_FromDeepest(group2, i, max_to_scan, members, pairings) ==
    IF i >= max_to_scan THEN pairings
    ELSE LET r == PairRank(preference_i_pairings(group2, max_to_scan - i),
                           members, pairings)
         IN  ScanRanks_FromDeepest(group2, i + 1, max_to_scan, r.members, r.pairings)

\* line 387: for i in range(1, max_to_scan)
RECURSIVE ScanRanks(_, _, _, _, _)
ScanRanks(group2, i, max_to_scan, members, pairings) ==
    IF i >= max_to_scan THEN pairings
    ELSE LET r == PairRank(preference_i_pairings(group2, i), members, pairings)
         IN  ScanRanks(group2, i + 1, max_to_scan, r.members, r.pairings)

match_no_preference(group1, group2, max_to_scan) ==
    ScanRanks(group2, 1, max_to_scan, no_preference_members(group1), <<>>)

\* line 357: max_to_scan = 5
DefaultMaxToScan == 5

-----------------------------------------------------------------------------
(* Engine instances: total, mutually consistent preference lists *)

FirstNames(names, n) == SubSeq(names, 1, n)

\* the dictionaries {name: total preference list} over the given opposite group
TotalDicts(names, others) ==
    LET lists == Perms(Range(others))
    IN  {d \in [1..Len(names) -> lists] : TRUE}

AsDict(names, f) == [i \in 1..Len(names) |-> <<names[i], f[i]>>]

Blank == <<>>

InitEngine ==
    /\ pc = "engine"
    /\ \E nm \in 0..MaxPeople : \E nw \in 0..(MaxPeople - nm) :
         LET men   == FirstNames(MenNames, nm)
             women == FirstNames(WomenNames, nw)
         IN  \E mp \in TotalDicts(men, women) : \E wp \in TotalDicts(women, men) :
               eng = EngineReturn(EngineStart(AsDict(men, mp), AsDict(women, wp)))
    /\ rawMentors = Blank /\ rawCandidates = Blank
    /\ rawMentorsYears = Blank /\ rawCandidatesYears = Blank
    /\ mentors = Blank /\ candidates = Blank
    /\ mentors_years = Blank /\ candidates_years = Blank
    /\ successful_pairings = Blank
    /\ one_sided_candidate_pairings = Blank
    /\ one_sided_mentor_pairings = Blank
    /\ mentor_dict = Blank /\ candidate_dict = Blank
    /\ stable_matches = Blank
    /\ stable_match_success = FALSE
    /\ all_pairings = Blank
    /\ engine_runs = 0
    /\ error = NoneVal
    /\ args = Blank /\ ret = Blank

\* one iteration of the while loop of stable_marriage
EngineStep ==
    /\ pc = "engine"
    /\ eng.status = "running"
    /\ eng' = EngineIter(eng)
    /\ UNCHANGED pc
    /\ UNCHANGED pipelineVars
    /\ UNCHANGED callVars

NextEngine == EngineStep

SpecEngine == InitEngine /\ [][NextEngine]_vars

-----------------------------------------------------------------------------
(* src/stable_marriage_csv.py: main *)

\* the rows of one CSV file: a name of the file followed by k entries, each any
\* of the names in stated
RowsWith(names, stated, k) == {<<n>> \o p : n \in names, p \in [1..k -> stated]}

RECURSIVE PoolsWith(_, _, _, _)
PoolsWith(names, stated, n, k) ==
    IF n = 0 THEN (IF k = 0 THEN {<<>>} ELSE {})
    ELSE UNION {{<<r>> \o rest : r \in RowsWith(names, stated, j),
                                 rest \in PoolsWith(names, stated, n - 1, k - j)}
                : j \in 0..k}

\* no stable_marriage call made yet
EngineIdle == [EngineStart(<<>>, <<>>) EXCEPT !.status = "idle"]

\* what main holds before its stages have run
MainStart ==
    /\ pc = "read"
    /\ mentors = rawMentors /\ candidates = rawCandidates
    /\ mentors_years = rawMentorsYears /\ candidates_years = rawCandidatesYears
    /\ successful_pairings = Blank
    /\ one_sided_candidate_pairings = Blank
    /\ one_sided_mentor_pairings = Blank
    /\ mentor_dict = Blank /\ candidate_dict = Blank
    /\ stable_matches = Blank
    /\ stable_match_success = FALSE
    /\ all_pairings = Blank
    /\ engine_runs = 0
    /\ error = NoneVal
    /\ eng = EngineIdle
    /\ args = Blank /\ ret = Blank

\* any rows over the two name sets, repeated names and any row order included,
\* each stating members of the other file, with at most MaxEntries preference
\* entries in all
InitAnyRows ==
    \E nm \in 0..Cardinality(MentorNames) : \E nc \in 0..Cardinality(CandidateNames) :
    \E km \in 0..MaxEntries : \E kc \in 0..(MaxEntries - km) :
        /\ rawMentors \in PoolsWith(MentorNames, CandidateNames, nm, km)
        /\ rawCandidates \in PoolsWith(CandidateNames, MentorNames, nc, kc)

\* two mentors and three candidates, with at most MaxWideEntries entries in all
InitSurplus ==
    \E km \in 0..MaxWideEntries : \E kc \in 0..(MaxWideEntries - km) :
        /\ rawMentors \in {p \in PoolsWith(MentorNames, WideCandidateNames, 2, km) :
                              RowNames(p) = <<"m1", "m2">>}
        /\ rawCandidates \in {p \in PoolsWith(WideCandidateNames, MentorNames, 3, kc) :
                              RowNames(p) = <<"c1", "c2", "c3">>}

\* a member of both files ("a" is a mentor and a candidate) and rows that state
\* any name at all: their own, a member of their own file, the shared one; with
\* at most MaxSharedEntries entries in all
InitSharedNames ==
    \E km \in 0..MaxSharedEntries : \E kc \in 0..(MaxSharedEntries - km) :
        /\ rawMentors \in {p \in PoolsWith(SharedMentorNames, SharedNames, 2, km) :
                              RowNames(p) = <<"a", "m2">>}
        /\ rawCandidates \in {p \in PoolsWith(SharedCandidateNames, SharedNames, 2, kc) :
                              RowNames(p) = <<"a", "c1">>}

\* the two year dictionaries, keyed by the names of the rows as read
YearsWithin(mentor_years, candidate_years) ==
    /\ rawMentorsYears \in [NameSet(rawMentors) -> mentor_years]
    /\ rawCandidatesYears \in [NameSet(rawCandidates) -> candidate_years]

\* The state at line 272, as read_and_preprocess reaches validate_data: the rows
\* of the two files without their year column and the two year dictionaries
Init ==
    /\ \/ (InitAnyRows \/ InitSurplus) /\ YearsWithin(MentorYears, CandidateYears)
       \/ InitSharedNames /\ YearsWithin(MentorYears, SharedCandidateYears)
    /\ MainStart

rawVars == <<rawMentors, rawCandidates, rawMentorsYears, rawCandidatesYears>>

\* line 418 (line 272): the first validation, with the year maps
Preprocess ==
    /\ pc = "read"
    /\ UNCHANGED callVars
    /\ LET v == validate_data(rawMentors, rawCandidates,
                              rawMentorsYears, rawCandidatesYears, TRUE)
       IN  /\ mentors' = v.mentors
           /\ candidates' = v.candidates
           /\ error' = v.err
           /\ pc' = IF v.err = NoneVal THEN "first_choices" ELSE "failed"
    /\ UNCHANGED <<rawVars, mentors_years, candidates_years, successful_pairings,
                   one_sided_candidate_pairings, one_sided_mentor_pairings,
                   mentor_dict, candidate_dict, stable_matches,
                   stable_match_success, all_pairings, engine_runs, eng>>

\* a main that goes from the first choices straight to the mentors without
\* preferences
PairFirstChoices_ThenMentors ==
    /\ pc = "first_choices"
    /\ UNCHANGED callVars
    /\ LET t == match_top_choices(list_to_dictionary(mentors),
                                  list_to_dictionary(candidates))
           r == remove_pairings(t.pairings, mentors, candidates)
       IN  IF t.err # NoneVal
           THEN /\ error' = t.err
                /\ pc' = "failed"
                /\ UNCHANGED <<mentors, candidates, successful_pairings>>
           ELSE /\ successful_pairings' = t.pairings
                /\ mentors' = r.mentors
                /\ candidates' = r.candidates
                /\ error' = r.err
                /\ pc' = IF r.err = NoneVal THEN "one_sided_mentors" ELSE "failed"
    /\ UNCHANGED <<rawVars, mentors_years, candidates_years,
                   one_sided_candidate_pairings, one_sided_mentor_pairings,
                   mentor_dict, candidate_dict, stable_matches,
                   stable_match_success, all_pairings, engine_runs, eng>>

\* lines 426-428
PairFirstChoices ==
    /\ pc = "first_choices"
    /\ UNCHANGED callVars
    /\ LET t == match_top_choices(list_to_dictionary(mentors),
                                  list_to_dictionary(candidates))
           r == remove_pairings(t.pairings, mentors, candidates)
       IN  IF t.err # NoneVal
           THEN /\ error' = t.err
                /\ pc' = "failed"
                /\ UNCHANGED <<mentors, candidates, successful_pairings>>
           ELSE /\ successful_pairings' = t.pairings
                /\ mentors' = r.mentors
                /\ candidates' = r.candidates
                /\ error' = r.err
                /\ pc' = IF r.err = NoneVal THEN "one_sided_candidates" ELSE "failed"
    /\ UNCHANGED <<rawVars, mentors_years, candidates_years,
                   one_sided_candidate_pairings, one_sided_mentor_pairings,
                   mentor_dict, candidate_dict, stable_matches,
                   stable_match_success, all_pairings, engine_runs, eng>>

\* lines 432-434: the candidates are group1, and remove_pairings is called with
\* the candidates in the place of its mentors
PairOneSidedCandidates ==
    /\ pc = "one_sided_candidates"
    /\ UNCHANGED callVars
    /\ LET found == match_no_preference(candidates, mentors, DefaultMaxToScan)
           r == remove_pairings(found, candidates, mentors)
       IN  /\ one_sided_candidate_pairings' = found
           /\ candidates' = r.mentors
           /\ mentors' = r.candidates
           /\ error' = r.err
           /\ pc' = IF r.err = NoneVal THEN "one_sided_mentors" ELSE "failed"
    /\ UNCHANGED <<rawVars, mentors_years, candidates_years, successful_pairings,
                   one_sided_mentor_pairings, mentor_dict, candidate_dict,
                   stable_matches, stable_match_success, all_pairings,
                   engine_runs, eng>>

\* lines 437-439
PairOneSidedMentors ==
    /\ pc = "one_sided_mentors"
    /\ UNCHANGED callVars
    /\ LET found == match_no_preference(mentors, candidates, DefaultMaxToScan)
           r == remove_pairings(found, mentors, candidates)
       IN  /\ one_sided_mentor_pairings' = found
           /\ mentors' = r.mentors
           /\ candidates' = r.candidates
           /\ error' = r.err
           /\ pc' = IF r.err = NoneVal THEN "fill" ELSE "failed"
    /\ UNCHANGED <<rawVars, mentors_years, candidates_years, successful_pairings,
                   one_sided_candidate_pairings, mentor_dict, candidate_dict,
                   stable_matches, stable_match_success, all_pairings,
                   engine_runs, eng>>

\* lines 442-448: the pools completed and handed to the engine
FillAndMatch ==
    /\ pc = "fill"
    /\ UNCHANGED callVars
    /\ LET f == fill_with_valid(mentors, candidates, mentors_years, candidates_years)
           md == list_to_dictionary(f.mentors_filled)
           cd == list_to_dictionary(f.candidates_filled)
           e == stable_marriage(md, cd)
       IN  IF f.err # NoneVal
           THEN /\ error' = f.err
                /\ pc' = "failed"
                /\ UNCHANGED <<mentor_dict, candidate_dict, eng, engine_runs,
                               stable_matches, stable_match_success>>
           ELSE /\ mentor_dict' = md
                /\ candidate_dict' = cd
                /\ eng' = e
                /\ engine_runs' = engine_runs + 1
                /\ IF e.status = "KeyError"
                   THEN /\ error' = "KeyError"
                        /\ pc' = "failed"
                        /\ UNCHANGED <<stable_matches, stable_match_success>>
                   ELSE /\ stable_matches' = e.result
                        /\ stable_match_success' = (Len(e.result) # 0)
                        /\ pc' = IF Len(e.result) # 0 THEN "combine" ELSE "fallback"
                        /\ UNCHANGED error
    /\ UNCHANGED <<rawVars, mentors, candidates, mentors_years, candidates_years,
                   successful_pairings, one_sided_candidate_pairings,
                   one_sided_mentor_pairings, all_pairings>>

\* lines 452-465: the files are read and validated again, every list is
\* completed and the engine runs on the whole population
Fallback ==
    /\ pc = "fallback"
    /\ UNCHANGED callVars
    /\ LET v == validate_data(rawMentors, rawCandidates,
                              rawMentorsYears, rawCandidatesYears, TRUE)
           f == fill_with_valid(v.mentors, v.candidates,
                                rawMentorsYears, rawCandidatesYears)
           md == list_to_dictionary(f.mentors_filled)
           cd == list_to_dictionary(f.candidates_filled)
           e == stable_marriage(md, cd)
       IN  IF v.err # NoneVal
           THEN /\ error' = v.err
                /\ pc' = "failed"
                /\ UNCHANGED <<mentors, candidates, mentors_years, candidates_years,
                               mentor_dict, candidate_dict, eng, engine_runs,
                               stable_matches>>
           ELSE /\ mentors' = v.mentors
                /\ candidates' = v.candidates
                /\ mentors_years' = rawMentorsYears
                /\ candidates_years' = rawCandidatesYears
                /\ IF f.err # NoneVal
                   THEN /\ error' = f.err
                        /\ pc' = "failed"
                        /\ UNCHANGED <<mentor_dict, candidate_dict, eng,
                                       engine_runs, stable_matches>>
                   ELSE /\ mentor_dict' = md
                        /\ candidate_dict' = cd
                        /\ eng' = e
                        /\ engine_runs' = engine_runs + 1
                        /\ IF e.status = "KeyError"
                           THEN /\ error' = "KeyError"
                                /\ pc' = "failed"
                                /\ UNCHANGED stable_matches
                           ELSE /\ stable_matches' = e.result
                                /\ pc' = IF Len(e.result) = 0
                                         THEN "gave_up" ELSE "combine"
                                /\ UNCHANGED error
    /\ UNCHANGED <<rawVars, successful_pairings, one_sided_candidate_pairings,
                   one_sided_mentor_pairings, stable_match_success, all_pairings>>

\* lines 476-483: None becomes "No mentor" / "No candidate"
NoMentor == "No mentor"
NoCandidate == "No candidate"
FirstChoiceNote == "Paired based on first choice"
OneSidedMentorsNote == "Paired based on one-sided mentors"
OneSidedCandidatesNote == "Paired based on one-sided candidates"
StableMatchingNote == "Paired based on stable matching"

\* lines 469-483
CombinedPairings(first, os_mentor, os_candidate, stable) ==
    [i \in 1..Len(first) |-> <<first[i][1], first[i][2], FirstChoiceNote>>]
    \o [i \in 1..Len(os_mentor) |->
           <<os_mentor[i][1], os_mentor[i][2], OneSidedMentorsNote>>]
    \o [i \in 1..Len(os_candidate) |->
           <<os_candidate[i][2], os_candidate[i][1], OneSidedCandidatesNote>>]
    \o [i \in 1..Len(stable) |->
           <<IF stable[i][1] = NoneVal THEN NoMentor ELSE stable[i][1],
             IF stable[i][2] = NoneVal THEN NoCandidate ELSE stable[i][2],
             StableMatchingNote>>]

\* lines 468-485: after the fallback the engine's list is the result as it is
MergedPairings(success, first, os_mentor, os_candidate, stable) ==
    IF success
    THEN CombinedPairings(first, os_mentor, os_candidate, stable)
    ELSE stable

\* lines 467-485
Combine ==
    /\ pc = "combine"
    /\ UNCHANGED callVars
    /\ all_pairings' =
          MergedPairings(stable_match_success, successful_pairings,
                         one_sided_mentor_pairings, one_sided_candidate_pairings,
                         stable_matches)
    /\ pc' = "write"
    /\ UNCHANGED <<rawVars, mentors, candidates, mentors_years, candidates_years,
                   successful_pairings, one_sided_candidate_pairings,
                   one_sided_mentor_pairings, mentor_dict, candidate_dict,
                   stable_matches, stable_match_success, engine_runs, error, eng>>

\* lines 490-493: every element is unpacked into (mentor, candidate, notes)
WriteOutput ==
    /\ pc = "write"
    /\ UNCHANGED callVars
    /\ IF \A i \in 1..Len(all_pairings) : Len(all_pairings[i]) = 3
       THEN pc' = "written" /\ UNCHANGED error
       ELSE pc' = "failed" /\ error' = "ValueError"
    /\ UNCHANGED <<rawVars, mentors, candidates, mentors_years, candidates_years,
                   successful_pairings, one_sided_candidate_pairings,
                   one_sided_mentor_pairings, mentor_dict, candidate_dict,
                   stable_matches, stable_match_success, all_pairings,
                   engine_runs, eng>>

Next ==
    \/ Preprocess
    \/ PairFirstChoices
    \/ PairOneSidedCandidates
    \/ PairOneSidedMentors
    \/ FillAndMatch
    \/ Fallback
    \/ Combine
    \/ WriteOutput

Spec == Init /\ [][Next]_vars

-----------------------------------------------------------------------------
(* Properties of the engine, checked under SpecEngine *)

EngineMen == Range(DictKeys(eng.male))
EngineWomen == Range(DictKeys(eng.female))

\* position of x in a stated preference order, the length of the list for an
\* absent partner or an unlisted name
RankIn(list, x) == IF IsIn(x, list) THEN FirstPos(x, list) - 1 ELSE Len(list)

\* partners under a list of (man, woman) pairs
WifeIn(pairs, m) ==
    IF \E i \in 1..Len(pairs) : pairs[i][1] = m
    THEN pairs[CHOOSE i \in 1..Len(pairs) : pairs[i][1] = m][2]
    ELSE NoneVal

HusbandIn(pairs, w) ==
    IF \E i \in 1..Len(pairs) : pairs[i][2] = w
    THEN pairs[CHOOSE i \in 1..Len(pairs) : pairs[i][2] = w][1]
    ELSE NoneVal

\* m and w are not paired and each ranks the other strictly above the partner held
BlockingPair(male, female, pairs, m, w) ==
    /\ WifeIn(pairs, m) # w
    /\ RankIn(DictGet(male, m), w) < RankIn(DictGet(male, m), WifeIn(pairs, m))
    /\ RankIn(DictGet(female, w), m) < RankIn(DictGet(female, w), HusbandIn(pairs, w))

StablePairs(male, female, pairs) ==
    \A m \in Range(DictKeys(male)) : \A w \in Range(DictKeys(female)) :
        ~BlockingPair(male, female, pairs, m, w)

\* every matching of the instance: each man with one woman or none, no woman twice
AllMatchings(male, female) ==
    LET M == Range(DictKeys(male))
        W == Range(DictKeys(female))
    IN  {mu \in [M -> W \cup {NoneVal}] :
            \A a \in M : \A b \in M : (a # b /\ mu[a] # NoneVal) => mu[a] # mu[b]}

PairsOf(male, mu) == [i \in 1..Len(male) |-> <<male[i][1], mu[male[i][1]]>>]

StableMatchings(male, female) ==
    {mu \in AllMatchings(male, female) : StablePairs(male, female, PairsOf(male, mu))}

EngineReturnedMatching == eng.status = "done" /\ eng.result # <<>>

\* C1: a non-empty matching returned by stable_marriage on total, mutually
\* consistent lists has no blocking pair: no man and woman, not paired with each
\* other, who each rank the other strictly above the partner they hold (an
\* unmatched woman ranks her absent suitor below every listed man).
C1_Stable ==
    (pc = "engine" /\ EngineReturnedMatching)
        => StablePairs(eng.male, eng.female, eng.result)

\* a returned matching of at least two men in which a suitor was displaced
C1_Witness ==
    /\ pc = "engine" /\ EngineReturnedMatching
    /\ Len(eng.male) >= 2
    /\ \E m \in EngineMen : eng.next_index[<<m, "dict">>] > 0

\* C2: the returned matching is proposer-optimal: no stable matching of the same
\* instance gives any man a woman he ranks strictly above the one the engine
\* gave him.
C2_ProposerOptimal ==
    (pc = "engine" /\ EngineReturnedMatching)
        => \A mu \in StableMatchings(eng.male, eng.female) : \A m \in EngineMen :
               RankIn(DictGet(eng.male, m), mu[m])
                   >= RankIn(DictGet(eng.male, m), WifeIn(eng.result, m))

\* a returned matching of an instance that has several stable matchings
C2_Witness ==
    /\ pc = "engine" /\ EngineReturnedMatching
    /\ Cardinality(StableMatchings(eng.male, eng.female)) >= 2

\* C7: with k more men than women (and total lists) the engine returns a
\* matching in which exactly k men are paired with the absent marker, instead
\* of reporting infeasibility.
C7_SurplusMenUnmatched ==
    (pc = "engine" /\ eng.status # "running"
        /\ Len(eng.female) >= 1 /\ Len(eng.male) > Len(eng.female))
        => /\ eng.status = "done"
           /\ Cardinality({i \in 1..Len(eng.result) :
                              eng.result[i][1] \in EngineMen /\ eng.result[i][2] = NoneVal})
                = Len(eng.male) - Len(eng.female)

-----------------------------------------------------------------------------
(* Properties of main, checked under Spec *)

AllMentors == NameSet(rawMentors)
AllCandidates == NameSet(rawCandidates)

\* main has built its result list (lines 467-485)
ResultProduced == all_pairings # <<>>

HeuristicPairCount ==
    Len(successful_pairings) + Len(one_sided_candidate_pairings)
        + Len(one_sided_mentor_pairings)

\* C3: in the merged result no mentor name and no candidate name appears in
\* more than one pairing (so match_no_preference never pairs one group2 member
\* with two no-preference members at two ranks).
C3_NoMemberPairedTwice ==
    ResultProduced =>
        \A i \in 1..Len(all_pairings) : \A j \in 1..Len(all_pairings) :
            i # j =>
                /\ all_pairings[i][1] \in AllMentors
                      => all_pairings[i][1] # all_pairings[j][1]
                /\ all_pairings[i][2] \in AllCandidates
                      => all_pairings[i][2] # all_pairings[j][2]

\* C4: no pairing of the final result violates the eligibility constraint: a
\* mentor paired with a candidate has a year strictly less than the candidate's.
C4_ResultEligible ==
    ResultProduced =>
        \A i \in 1..Len(all_pairings) :
            (all_pairings[i][1] \in AllMentors /\ all_pairings[i][2] \in AllCandidates)
                => rawMentorsYears[all_pairings[i][1]]
                       < rawCandidatesYears[all_pairings[i][2]]

\* the entries of a raw row that name an existing, eligible counterpart
EligibleCandidateEntries(row) ==
    SelectSeq(Tail(row), LAMBDA c :
        c \in AllCandidates /\ rawCandidatesYears[c] > rawMentorsYears[row[1]])

EligibleMentorEntries(row) ==
    SelectSeq(Tail(row), LAMBDA m :
        m \in AllMentors /\ rawMentorsYears[m] < rawCandidatesYears[row[1]])

\* C5: after validate_data with the year maps every mentor row holds, behind
\* the name, exactly its entries naming an existing candidate of a strictly
\* greater year, and every candidate row exactly its entries naming an existing
\* mentor of a strictly smaller year, in their stated order.
C5_ValidatedRows ==
    pc = "first_choices" =>
        /\ Len(mentors) = Len(rawMentors) /\ Len(candidates) = Len(rawCandidates)
        /\ \A i \in 1..Len(mentors) :
              mentors[i] = <<rawMentors[i][1]>> \o EligibleCandidateEntries(rawMentors[i])
        /\ \A i \in 1..Len(candidates) :
              candidates[i] = <<rawCandidates[i][1]>> \o EligibleMentorEntries(rawCandidates[i])

AbsentMarkers == {NoneVal, NoMentor, NoCandidate}

\* C6: in every result produced, on the heuristic path or the fallback path,
\* every mentor and every candidate of the input appears in a pairing, with a
\* counterpart or with an absent-counterpart marker.
C6_EveryMemberCovered ==
    ResultProduced =>
        /\ \A m \in AllMentors : \E i \in 1..Len(all_pairings) :
              /\ all_pairings[i][1] = m
              /\ all_pairings[i][2] \in AllCandidates \cup AbsentMarkers
        /\ \A c \in AllCandidates : \E i \in 1..Len(all_pairings) :
              /\ all_pairings[i][2] = c
              /\ all_pairings[i][1] \in AllMentors \cup AbsentMarkers

\* C8: when the heuristics confirm every member, the engine runs on an empty
\* residual instance and main does not enter the fallback: the result is the
\* heuristic pairings.
C8_EmptyResidualIsSuccess ==
    (engine_runs >= 1 /\ HeuristicPairCount > 0
        /\ mentors = <<>> /\ candidates = <<>>
        /\ pc \in {"combine", "fallback"})
        => pc = "combine" /\ stable_match_success

\* the lists the fallback must hand to the engine: every member of the input,
\* each with every eligible counterpart in the list
WholePopulation(md, cd) ==
    /\ Range(DictKeys(md)) = AllMentors /\ Range(DictKeys(cd)) = AllCandidates
    /\ \A m \in AllMentors : \A c \in AllCandidates :
          rawMentorsYears[m] < rawCandidatesYears[c]
              => IsIn(c, DictGet(md, m)) /\ IsIn(m, DictGet(cd, c))

\* the first run has returned and main is about to run the engine again; eng is
\* the first run as it ended
SecondRunDue == pc = "fallback"

\* C9: the engine runs at most twice; a second run happens only after the
\* first run reported infeasibility (it took a return of lines 75 or 81), and
\* runs on lists completed over the whole input; the result then holds the
\* engine's pairs only, no heuristic pairing; if the second run is infeasible
\* too, no result is produced.
C9_SingleFallback ==
    /\ engine_runs <= 2
    /\ SecondRunDue => (engine_runs = 1 /\ eng.status = "infeasible")
    /\ engine_runs = 2 =>
          /\ ~stable_match_success
          /\ WholePopulation(mentor_dict, candidate_dict)
          /\ Len(all_pairings) \in {0, Len(stable_matches)}
          /\ \A i \in 1..Len(all_pairings) :
                /\ all_pairings[i][1] = stable_matches[i][1]
                /\ all_pairings[i][2] = stable_matches[i][2]
                /\ \A k \in 1..Len(all_pairings[i]) :
                      all_pairings[i][k] \notin
                          {FirstChoiceNote, OneSidedMentorsNote, OneSidedCandidatesNote}
          /\ stable_matches = <<>> => (pc = "gave_up" /\ all_pairings = <<>>)
    /\ pc = "gave_up" => (engine_runs = 2 /\ all_pairings = <<>>)

Notes == {FirstChoiceNote, OneSidedMentorsNote, OneSidedCandidatesNote,
          StableMatchingNote}

\* C10: every element of the result, on the normal and on the fallback path,
\* is a triple (mentor or absent marker, candidate or absent marker, tag).
C10_ResultOfTriples ==
    ResultProduced =>
        \A i \in 1..Len(all_pairings) :
            /\ Len(all_pairings[i]) = 3
            /\ all_pairings[i][1] \in AllMentors \cup {NoMentor}
            /\ all_pairings[i][2] \in AllCandidates \cup {NoCandidate}
            /\ all_pairings[i][3] \in Notes

\* the names that two rows of a group share
DuplicatedNames(rows) ==
    {rows[i][1] : i \in {j \in 1..Len(rows) :
                            \E k \in 1..Len(rows) : k # j /\ rows[k][1] = rows[j][1]}}

\* the validation of the rows read from the two files (line 272)
FirstValidation ==
    validate_data(rawMentors, rawCandidates, rawMentorsYears, rawCandidatesYears, TRUE)

\* main stopped in its first validation
DuplicateNameFailure ==
    pc = "failed" /\ error = "ValueError" /\ engine_runs = 0

\* C11: the first validation fails with the duplicate-name error exactly when
\* two mentor rows or two candidate rows share a name; it then leaves every
\* preference list as it was read, no matching stage runs, and the error names
\* every name that is repeated in the input, of the mentors and of the
\* candidates.
C11_DuplicateNamesReported ==
    pc # "read" =>
        LET dup == DuplicatedNames(rawMentors) \cup DuplicatedNames(rawCandidates)
        IN  /\ DuplicateNameFailure <=> dup # {}
            /\ DuplicateNameFailure =>
                  /\ mentors = rawMentors /\ candidates = rawCandidates
                  /\ HeuristicPairCount = 0 /\ eng = EngineIdle
                  /\ Range(FirstValidation.bad) = dup

-----------------------------------------------------------------------------
(* fill_list called on its own, and once more on its own result *)

\* SpecFill: greatest number of stated preferences of the row
MaxFillEntries == 3

\* the names of the rows and of the name sets; a member may carry the name of
\* a member of the other group
FillNames == {"a", "b", "c"}

\* main is not running
NoPipeline ==
    /\ rawMentors = Blank /\ rawCandidates = Blank
    /\ rawMentorsYears = Blank /\ rawCandidatesYears = Blank
    /\ mentors = Blank /\ candidates = Blank
    /\ mentors_years = Blank /\ candidates_years = Blank
    /\ successful_pairings = Blank
    /\ one_sided_candidate_pairings = Blank
    /\ one_sided_mentor_pairings = Blank
    /\ mentor_dict = Blank /\ candidate_dict = Blank
    /\ stable_matches = Blank
    /\ stable_match_success = FALSE
    /\ all_pairings = Blank
    /\ engine_runs = 0
    /\ error = NoneVal
    /\ eng = EngineIdle

InitFill ==
    /\ pc = "fill_list"
    /\ \E k \in 0..MaxFillEntries :
         args \in [preference_list : RowsWith(FillNames, FillNames, k),
                   name_set : SUBSET FillNames]
    /\ ret = Blank
    /\ NoPipeline

\* l = fill_list(preference_list, name_set)
FillList ==
    /\ pc = "fill_list"
    /\ ret' = Append(ret, fill_list(args.preference_list, args.name_set))
    /\ pc' = "filled"
    /\ UNCHANGED <<args, eng>>
    /\ UNCHANGED pipelineVars

\* fill_list(l, name_set)
FillAgain ==
    /\ pc = "filled"
    /\ ret' = Append(ret, fill_list(ret[1], args.name_set))
    /\ pc' = "refilled"
    /\ UNCHANGED <<args, eng>>
    /\ UNCHANGED pipelineVars

NextFill == FillList \/ FillAgain

SpecFill == InitFill /\ [][NextFill]_vars

\* the elements of s without the repetitions, each at its first occurrence
KeepFirst(s) ==
    LET keep == {i \in 1..Len(s) : \A j \in 1..(i-1) : s[j] # s[i]}
    IN  [k \in 1..Cardinality(keep) |->
            s[CHOOSE i \in keep : Cardinality({j \in keep : j < i}) = k - 1]]

\* s is in strictly ascending lexicographic order
Ascending(s) ==
    \A i \in 1..Len(s) : \A j \in (i+1)..Len(s) :
        FirstPos(s[i], NameOrder) < FirstPos(s[j], NameOrder)

Occurrences(x, s) == Cardinality({i \in 1..Len(s) : s[i] = x})

\* C12: fill_list(row, name_set) is the member's name, then the stated
\* preferences without repetitions (first occurrences, stated order), then the
\* names of name_set not stated, ascending; behind position 0 no name repeats
\* and every name of name_set occurs exactly once.
C12_FillListTotalOrder ==
    pc \in {"filled", "refilled"} =>
        LET row    == args.preference_list
            stated == KeepFirst(Tail(row))
            l      == ret[1]
            rest   == SubSeq(l, Len(stated) + 2, Len(l))
        IN  /\ Len(l) >= Len(stated) + 1
            /\ l[1] = row[1]
            /\ SubSeq(l, 2, Len(stated) + 1) = stated
            /\ Range(rest) = args.name_set \ Range(stated)
            /\ Ascending(rest)
            /\ \A n \in Range(Tail(l)) : Occurrences(n, Tail(l)) = 1
            /\ \A n \in args.name_set : Occurrences(n, Tail(l)) = 1

\* C13: completing a completed list changes nothing:
\* fill_list(fill_list(row, name_set), name_set) = fill_list(row, name_set).
C13_FillListIdempotent ==
    pc = "refilled" => ret[2] = ret[1]

-----------------------------------------------------------------------------
(* Properties of the stages of main, checked under Spec *)

\* stable_marriage on the unreduced instance: the validated rows of the whole
\* input completed by fill_with_valid, no pairing removed
UnreducedRun ==
    LET v == FirstValidation
        f == fill_with_valid(v.mentors, v.candidates,
                             rawMentorsYears, rawCandidatesYears)
    IN  IF f.err # NoneVal
        THEN [EngineIdle EXCEPT !.status = f.err]
        ELSE stable_marriage(list_to_dictionary(f.mentors_filled),
                             list_to_dictionary(f.candidates_filled))

\* the first-choice stage has run and left its pairings
FirstChoicesPaired ==
    pc \notin {"read", "first_choices", "failed"} /\ successful_pairings # <<>>

\* C14: every pair confirmed by match_top_choices on the validated pools is a
\* pair of the matching stable_marriage returns on the unreduced instance,
\* whenever that run returns a matching.
C14_TopChoicesInEngineResult ==
    (FirstChoicesPaired /\ UnreducedRun.status = "done")
        => \A i \in 1..Len(successful_pairings) :
               IsIn(<<successful_pairings[i][1], successful_pairings[i][2]>>,
                    UnreducedRun.result)

-----------------------------------------------------------------------------
(* match_no_preference called on its own, at any scan depth *)

\* SpecScan: total number of preference entries of the group2 rows
MaxScanEntries == 4
\* SpecScan: greatest max_to_scan of a call
MaxScanDepth == 3

Group1Names == <<"g1", "g2">>
Group2Names == <<"h1", "h2">>

\* group1 as main holds it after validate_data: one row per name, with or
\* without stated preferences
Group1Pools ==
    {p \in UNION {PoolsWith(Range(Group1Names), Range(Group2Names), 2, k) : k \in 0..2} :
        RowNames(p) = Group1Names}

Group2Pools ==
    {p \in UNION {PoolsWith(Range(Group2Names), Range(Group1Names), 2, k) :
                     k \in 0..MaxScanEntries} :
        RowNames(p) = Group2Names}

InitScan ==
    /\ pc = "match_no_preference"
    /\ args \in [group1 : Group1Pools, group2 : Group2Pools,
                 max_to_scan : 1..MaxScanDepth]
    /\ ret = Blank
    /\ NoPipeline

\* match_no_preference(group1, group2, max_to_scan)
ScanCall ==
    /\ pc = "match_no_preference"
    /\ ret' = match_no_preference(args.group1, args.group2, args.max_to_scan)
    /\ pc' = "matched"
    /\ UNCHANGED <<args, eng>>
    /\ UNCHANGED pipelineVars

NextScan == ScanCall

SpecScan == InitScan /\ [][NextScan]_vars

\* row h of group2 names g at position i (position 0 is h's own name)
NamesAt(row, g, i) == Len(row) > i /\ row[i + 1] = g

ScanRow(h) == args.group2[CHOOSE k \in 1..Len(args.group2) : args.group2[k][1] = h]

NoPreference == Range(no_preference_members(args.group1))

\* C15: with max_to_scan = 1 the rank-1 slots are scanned: a no-preference
\* member named at position 1 of a group2 row is paired with a group2 member
\* that names him there, and a no-preference member named at positions 2 and
\* later only is not paired.
C15_ScanDepthOne ==
    (pc = "matched" /\ args.max_to_scan = 1) =>
        \A g \in NoPreference :
            IF \E k \in 1..Len(args.group2) : NamesAt(args.group2[k], g, 1)
            THEN \E n \in 1..Len(ret) :
                    ret[n][1] = g /\ NamesAt(ScanRow(ret[n][2]), g, 1)
            ELSE \A n \in 1..Len(ret) : ret[n][1] # g

\* C19: a pairing (g, h) made at position i of h's row lies within the scanned
\* positions 1..max_to_scan-1 and no group2 row names g at an earlier position;
\* no member is paired twice and only members without stated preferences are
\* paired.
C19_ResolvedByRank ==
    pc = "matched" =>
        /\ \A n \in 1..Len(ret) :
              LET g == ret[n][1]
                  i == FirstPos(g, Tail(ScanRow(ret[n][2])))
              IN  /\ g \in NoPreference
                  /\ i >= 1 /\ i <= args.max_to_scan - 1
                  /\ \A k \in 1..Len(args.group2) : \A j \in 1..(i - 1) :
                        ~NamesAt(args.group2[k], g, j)
        /\ \A n \in 1..Len(ret) : \A o \in 1..Len(ret) :
              n # o => ret[n][1] # ret[o][1]

\* the second row of group2 names g at position 1, the first row only at
\* position 2, both scanned: g goes to the second row
C19_Witness ==
    /\ pc = "matched" /\ args.max_to_scan >= 3
    /\ \E g \in NoPreference :
          /\ NamesAt(args.group2[1], g, 2) /\ ~NamesAt(args.group2[1], g, 1)
          /\ NamesAt(args.group2[2], g, 1)
          /\ IsIn(<<g, args.group2[2][1]>>, ret)

-----------------------------------------------------------------------------
(* Properties of the proposals of one engine run, checked under SpecEngine *)

\* the proposals made so far by man m: (woman, position in his list)
ProposalsOf(m) == SelectSeq(eng.proposals, LAMBDA p : p[1] = m)

\* C16: over a whole run no man proposes twice to the same woman, and the
\* positions of his list a man proposes at are strictly increasing over all of
\* his turns (a displaced man goes on from where he stopped).
C16_PointerNeverReset ==
    pc = "engine" =>
        \A m \in EngineMen :
            \A i \in 1..Len(ProposalsOf(m)) : \A j \in (i+1)..Len(ProposalsOf(m)) :
                /\ ProposalsOf(m)[i][2] # ProposalsOf(m)[j][2]
                /\ ProposalsOf(m)[i][3] < ProposalsOf(m)[j][3]

\* the length of the longest preference list of the men
ListLength ==
    IF eng.male = <<>> THEN 0
    ELSE CHOOSE n \in 0..Len(eng.female) :
            /\ \E i \in 1..Len(eng.male) : Len(eng.male[i][2]) = n
            /\ \A i \in 1..Len(eng.male) : Len(eng.male[i][2]) <= n

\* C17: the number of proposals made in a run (calls of next_candidate that
\* return a woman) never exceeds the number of men times the length of a
\* preference list.
C17_ProposalBound ==
    pc = "engine" => Len(eng.proposals) <= Len(eng.male) * ListLength

\* m is nobody's suitor and is not waiting in the list of bachelors
Stranded(m) ==
    /\ \A w \in EngineWomen : eng.suitor[w] # m
    /\ \A i \in 1..Len(eng.bachelors) : eng.bachelors[i][1] # m

\* an object of man m has its pointer behind the end of his list
Exhausted(m) ==
    \E k \in {"queue", "dict"} : eng.next_index[<<m, k>>] = Len(DictGet(eng.male, m))

\* C18: the run ends with the infeasibility return (lines 75 and 81) exactly
\* when a man has come to the end of his list without being any woman's suitor,
\* and in the very iteration in which he does (no later iteration starts); a
\* matching that is returned is never partial: every man is the suitor of
\* exactly one woman and is listed with her.
C18_InfeasibleOnExhaustion ==
    pc = "engine" =>
        /\ eng.status = "infeasible" <=> \E m \in EngineMen : Stranded(m)
        /\ \A m \in EngineMen : Stranded(m) => Exhausted(m)
        /\ eng.status = "infeasible" => eng.result = <<>>
        /\ eng.status = "done" =>
              \A m \in EngineMen :
                  /\ Cardinality({w \in EngineWomen : eng.suitor[w] = m}) = 1
                  /\ Cardinality({i \in 1..Len(eng.result) : eng.result[i][1] = m}) = 1
                  /\ \A i \in 1..Len(eng.result) :
                        eng.result[i][1] = m => eng.suitor[eng.result[i][2]] = m

\* infeasibility returned after a displaced man found nobody left, with other
\* bachelors still waiting
C18_Witness ==
    /\ pc = "engine" /\ eng.status = "infeasible"
    /\ eng.bachelors # <<>>
    /\ \E m \in EngineMen :
          Stranded(m) /\ eng.next_index[<<m, "dict">>] = Len(DictGet(eng.male, m))
                      /\ Len(DictGet(eng.male, m)) > 0

\* the pools once the first-choice pairings are removed from the validated rows
PoolsAfterFirstChoices ==
    remove_pairings(successful_pairings,
                    FirstValidation.mentors, FirstValidation.candidates)

\* the pools once the pairings of the candidates without preferences are
\* removed as well
PoolsAfterCandidates ==
    LET r == remove_pairings(one_sided_candidate_pairings,
                             PoolsAfterFirstChoices.candidates,
                             PoolsAfterFirstChoices.mentors)
    IN  [mentors |-> r.candidates, candidates |-> r.mentors]

\* the pools once the pairings of the mentors without preferences are removed
\* from those that first-choice pairing left
PoolsAfterMentorsFirst ==
    remove_pairings(one_sided_mentor_pairings,
                    PoolsAfterFirstChoices.mentors,
                    PoolsAfterFirstChoices.candidates)

\* the pools at the end of the three heuristic stages, in the order of main
PoolsAfterHeuristics ==
    remove_pairings(one_sided_mentor_pairings,
                    PoolsAfterCandidates.mentors, PoolsAfterCandidates.candidates)

\* main is past its three heuristic stages and no stage has failed
HeuristicsDone == pc \in {"fill", "combine", "fallback", "gave_up", "write", "written"}

\* C20 as stated: after the mutual first choices the mentors without
\* preferences (the proposing side) are paired first, on the pools the first
\* choices left, and the candidates without preferences after them, on the
\* pools reduced by the mentors' pairings.
C20_MentorsBeforeCandidates ==
    HeuristicsDone =>
        /\ one_sided_mentor_pairings =
              match_no_preference(PoolsAfterFirstChoices.mentors,
                                  PoolsAfterFirstChoices.candidates, DefaultMaxToScan)
        /\ one_sided_candidate_pairings =
              match_no_preference(PoolsAfterMentorsFirst.candidates,
                                  PoolsAfterMentorsFirst.mentors, DefaultMaxToScan)

\* C20, amended: main runs validate, mutual first choices, the candidates
\* without preferences (the responding side), then the mentors without
\* preferences (the proposing side), list completion, engine; each stage works
\* on the pools as the stage before it left them, and the first engine run
\* gets the completed pools that the three heuristic stages left.
C20_CandidatesBeforeMentors ==
    /\ pc \in {"first_choices", "one_sided_candidates", "one_sided_mentors", "fill"}
          => engine_runs = 0
    /\ pc = "first_choices" => HeuristicPairCount = 0
    /\ pc = "one_sided_candidates" =>
          /\ one_sided_candidate_pairings = <<>> /\ one_sided_mentor_pairings = <<>>
          /\ mentors = PoolsAfterFirstChoices.mentors
          /\ candidates = PoolsAfterFirstChoices.candidates
    /\ pc = "one_sided_mentors" =>
          /\ one_sided_mentor_pairings = <<>>
          /\ mentors = PoolsAfterCandidates.mentors
          /\ candidates = PoolsAfterCandidates.candidates
    /\ pc \in {"one_sided_mentors", "fill"} \/ HeuristicsDone =>
          one_sided_candidate_pairings =
              match_no_preference(PoolsAfterFirstChoices.candidates,
                                  PoolsAfterFirstChoices.mentors, DefaultMaxToScan)
    /\ HeuristicsDone =>
          one_sided_mentor_pairings =
              match_no_preference(PoolsAfterCandidates.mentors,
                                  PoolsAfterCandidates.candidates, DefaultMaxToScan)
    /\ pc = "fill" =>
          /\ mentors = PoolsAfterHeuristics.mentors
          /\ candidates = PoolsAfterHeuristics.candidates
    /\ (engine_runs = 1 /\ pc # "failed") =>
          LET f == fill_with_valid(PoolsAfterHeuristics.mentors,
                                   PoolsAfterHeuristics.candidates,
                                   rawMentorsYears, rawCandidatesYears)
          IN  /\ mentor_dict = list_to_dictionary(f.mentors_filled)
              /\ candidate_dict = list_to_dictionary(f.candidates_filled)

\* both one-sided stages have paired somebody and the engine has run on what
\* they left
C20_Witness ==
    /\ HeuristicsDone /\ engine_runs >= 1
    /\ one_sided_candidate_pairings # <<>>
    /\ one_sided_mentor_pairings # <<>>

-----------------------------------------------------------------------------
(* Properties of the pool reduction, checked under Spec *)

\* the mentors and the candidates confirmed by the heuristic stages run so far
\* (a pairing of the candidates' stage is (candidate, mentor))
ConfirmedMentors ==
    {successful_pairings[i][1] : i \in 1..Len(successful_pairings)}
    \cup {one_sided_mentor_pairings[i][1] : i \in 1..Len(one_sided_mentor_pairings)}
    \cup {one_sided_candidate_pairings[i][2] : i \in 1..Len(one_sided_candidate_pairings)}

ConfirmedCandidates ==
    {successful_pairings[i][2] : i \in 1..Len(successful_pairings)}
    \cup {one_sided_mentor_pairings[i][2] : i \in 1..Len(one_sided_mentor_pairings)}
    \cup {one_sided_candidate_pairings[i][1] : i \in 1..Len(one_sided_candidate_pairings)}

\* s is t with some of its elements left out
RECURSIVE IsSubsequence(_, _)
IsSubsequence(s, t) ==
    IF s = <<>> THEN TRUE
    ELSE IF t = <<>> THEN FALSE
    ELSE IF Head(s) = Head(t) THEN IsSubsequence(Tail(s), Tail(t))
    ELSE IsSubsequence(s, Tail(t))

\* every row of before whose member is not in gone has a row of its member in
\* after, holding entries of the row in their order
RowsKept(before, after, gone) ==
    \A i \in 1..Len(before) :
        before[i][1] \notin gone =>
            \E j \in 1..Len(after) :
                /\ after[j][1] = before[i][1]
                /\ IsSubsequence(Tail(after[j]), Tail(before[i]))

\* main holds the pools as the last remove_pairings call left them
PoolsReduced ==
    pc \in {"one_sided_candidates", "one_sided_mentors", "fill"}

\* C21: after every remove_pairings call no row of a pool belongs to a
\* confirmed member, no remaining row names a confirmed member behind position
\* 0, and the rows of the members not confirmed are all there, with remaining
\* entries in their stated order.
C21_PoolsCleaned ==
    PoolsReduced =>
        /\ \A i \in 1..Len(mentors) :
              /\ mentors[i][1] \notin ConfirmedMentors
              /\ \A k \in 2..Len(mentors[i]) : mentors[i][k] \notin ConfirmedCandidates
        /\ \A i \in 1..Len(candidates) :
              /\ candidates[i][1] \notin ConfirmedCandidates
              /\ \A k \in 2..Len(candidates[i]) : candidates[i][k] \notin ConfirmedMentors
        /\ RowsKept(FirstValidation.mentors, mentors, ConfirmedMentors)
        /\ RowsKept(FirstValidation.candidates, candidates, ConfirmedCandidates)

\* the row of the candidate named c among the validated rows
ValidatedCandidateRow(c) ==
    FirstValidation.candidates[
        CHOOSE k \in 1..Len(FirstValidation.candidates) :
            FirstValidation.candidates[k][1] = c]

\* the pairs (m, c), in the order of the mentors, with c first in m's list and
\* m first in c's list
MutualFirstChoices ==
    LET mutual == SelectSeq(FirstValidation.mentors, LAMBDA row :
                      /\ Len(row) > 1
                      /\ Len(ValidatedCandidateRow(row[2])) > 1
                      /\ ValidatedCandidateRow(row[2])[2] = row[1])
    IN  [i \in 1..Len(mutual) |-> <<mutual[i][1], mutual[i][2]>>]

\* C22: match_top_choices raises no error on validated pools, whoever has an
\* empty list (the mentor, or the candidate he names first), and returns
\* exactly the pairs of a mentor and a candidate who each name the other first.
C22_TopChoicesNeverFail ==
    /\ ~(pc = "failed" /\ engine_runs = 0 /\ error \in {"IndexError", "KeyError"})
    /\ pc \notin {"read", "first_choices", "failed"}
          => successful_pairings = MutualFirstChoices

-----------------------------------------------------------------------------
(* Invariants of the while loop of stable_marriage, checked under SpecEngine *)

\* over one iteration: a woman who holds a suitor still holds one, and a new
\* one stands strictly earlier in her list than the one he replaces
SuitorsImprove ==
    \A w \in EngineWomen :
        eng.suitor[w] # NoneVal =>
            /\ eng'.suitor[w] # NoneVal
            /\ eng'.suitor[w] # eng.suitor[w] =>
                  RankIn(DictGet(eng.female, w), eng'.suitor[w])
                      < RankIn(DictGet(eng.female, w), eng.suitor[w])

\* C23: through the loop a woman's tentative suitor only improves: once she
\* holds a suitor she is never without one again, and every replacement is by
\* a man she ranks strictly better than the one replaced.
C23_SuitorOnlyImproves == [][pc = "engine" => SuitorsImprove]_vars

\* a woman holds a suitor while the man she held before waits in the list of
\* bachelors
C23_Witness ==
    /\ pc = "engine" /\ eng.status = "running"
    /\ \E w \in EngineWomen : \E i \in 1..Len(eng.bachelors) :
          /\ eng.suitor[w] # NoneVal
          /\ eng.bachelors[i][2] = "dict"
          /\ \E k \in 1..Len(eng.proposals) :
                eng.proposals[k] = <<eng.bachelors[i][1], w, 0>>
          /\ RankIn(DictGet(eng.female, w), eng.suitor[w])
                < RankIn(DictGet(eng.female, w), eng.bachelors[i][1])

QueueCount(m) == Cardinality({i \in 1..Len(eng.bachelors) : eng.bachelors[i][1] = m})

SuitorCount(m) == Cardinality({w \in EngineWomen : eng.suitor[w] = m})

\* C24: at the head of every iteration each man is either once in the list of
\* bachelors or the suitor of exactly one woman, never both, never the suitor
\* of two women.
C24_ProposersPartitioned ==
    (pc = "engine" /\ eng.status = "running") =>
        \A m \in EngineMen :
            \/ QueueCount(m) = 1 /\ SuitorCount(m) = 0
            \/ QueueCount(m) = 0 /\ SuitorCount(m) = 1

\* a loop head with a man not yet served, a displaced man and a suitor
C24_Witness ==
    /\ pc = "engine" /\ eng.status = "running"
    /\ \E i \in 1..Len(eng.bachelors) : eng.bachelors[i][2] = "queue"
    /\ \E i \in 1..Len(eng.bachelors) : eng.bachelors[i][2] = "dict"
    /\ \E m \in EngineMen : SuitorCount(m) = 1

=============================================================================
